---- MODULE Spec2Model ----
(***************************************************************************)
(* Model of parse_config (cpp_parse_config.hpp): a character-by-character  *)
(* scanner that fills a map of "name" => "value" pairs from a config file. *)
(*                                                                         *)
(* Characters are integers: the bytes of the file are 0..255 and the       *)
(* program sees each one through the type char, whose signedness is fixed  *)
(* by the build.  Strings are sequences of characters, the map is a        *)
(* function from names to values, and the two char arrays are functions    *)
(* from 0-based indices to characters.                                     *)
(***************************************************************************)
EXTENDS Integers, Sequences, FiniteSets, TLC

\* ------------------------------------------------------------- bounds
\* Buffer sizes (configurable macros of the source, scaled down).
CONF_PARAM_NAME_MAX_LEN == 3
CONF_PARAM_VALUE_MAX_LEN == 3
\* Longest stream read when the bytes read are not recorded (Spec) and when
\* they are (SpecTraced).
MaxInput == 7
MaxTraced == 5

\* ---------------------------------------------------------- constants
CONFERR_NORET == -1
CONFERR_ERRFILE == -2
CONFERR_WRONGSYNTAX == -3
CONFERR_WRONGPARAM == -4
CONFERR_WRONGVALUE == -5

\* EOF of <cstdio>, the int the scanner compares each char with.
EOF == -1
\* Bytes of the file that the model draws its input from.
NUL == 0
NL == 10
SP == 32
DQUOTE == 34
HASH == 35
SQUOTE == 39
HYPHEN == 45
DIGIT1 == 49
EQUALS == 61
UNDERSCORE == 95
LETTER_A == 97
BYTE_FF == 255
\* Content of an array cell that was never written.
Uninit == 999

Alphabet ==
    {NUL, NL, SP, DQUOTE, HASH, SQUOTE, HYPHEN, DIGIT1, EQUALS, UNDERSCORE,
     LETTER_A, BYTE_FF}

\* ------------------------------------------------------------ helpers
\* <cctype> in the "C" locale; false for EOF and for bytes above 127.
isalpha(ch) == ch \in 65..90 \/ ch \in 97..122
isdigit(ch) == ch \in 48..57
\* Faulty variant: a test for the blank only, c == ' '.
isblank(ch) == ch = SP

isspace(ch) == ch \in 9..13 \/ ch = SP

EmptyMap == <<>>

\* The array as a C string: the characters before its first NUL.
RECURSIVE CStrFrom(_, _, _)
CStrFrom(buf, i, size) ==
    IF i >= size \/ buf[i] = NUL THEN <<>>
    ELSE <<buf[i]>> \o CStrFrom(buf, i + 1, size)

CStr(buf, size) == CStrFrom(buf, 0, size)

\* buf[i] = ch;  a write outside the array shows as a cell outside 0..size-1,
\* which no read of the model ever looks at.
Store(buf, i, ch) ==
    [j \in DOMAIN buf \cup {i} |-> IF j = i THEN ch ELSE buf[j]]

\* Faulty variant: the terminator written at index 0 (as lines 155-156 do).
TerminateAtStart(buf, fill) == Store(buf, 0, NUL)

\* param_value[value_fill] = 0;
TerminateValue(buf, fill) == Store(buf, fill, NUL)

\* Faulty variant: operator[] semantics, the last value wins.
InsertOverwrite(m, k, v) ==
    [x \in DOMAIN m \cup {k} |-> IF x = k THEN v ELSE m[x]]

\* std::unordered_map::insert: no effect when the key is present.
Insert(m, k, v) == IF k \in DOMAIN m THEN m ELSE m @@ (k :> v)

\* Faulty variant: the bound off by one.
NameOverflowLate(fill) == fill + 1 > CONF_PARAM_NAME_MAX_LEN

\* if (name_fill + 1 > CONF_PARAM_NAME_MAX_LEN - 1)
NameOverflow(fill) == fill + 1 > CONF_PARAM_NAME_MAX_LEN - 1

\* Faulty variant: the bound off by one.
ValueOverflowLate(fill) == fill + 1 > CONF_PARAM_VALUE_MAX_LEN

\* if (value_fill + 1 > CONF_PARAM_VALUE_MAX_LEN - 1)
ValueOverflow(fill) == fill + 1 > CONF_PARAM_VALUE_MAX_LEN - 1

\* --------------------------------------------------------------- state
VARIABLES
    pc,           \* "call", "scan" (in the while loop) or "done" (returned)
    status,       \* the returned int, 0 until an error returns
    ret_null,     \* whether the caller passed no map
    ret,          \* the caller's map *ret
    fconf,        \* the stream: "unopened", "good", "eof", "failed", "closed"
    pos,          \* number of bytes read from the stream
    char_signed,  \* the build: whether char is a signed type
    mode,         \* parse_mode
    param_name,   \* char param_name[CONF_PARAM_NAME_MAX_LEN]
    param_value,  \* char param_value[CONF_PARAM_VALUE_MAX_LEN]
    name_fill,
    value_fill,
    line,
    \* history, not read by the program
    ret0,         \* *ret as the caller passed it
    commits,      \* the (name, value) pairs given to ret->insert, in order
    tracing,      \* whether the bytes read are recorded
    consumed      \* the bytes read so far (when tracing)

vars ==
    <<pc, status, ret_null, ret, fconf, pos, char_signed, mode, param_name,
      param_value, name_fill, value_fill, line, ret0, commits, tracing,
      consumed>>

Modes ==
    {"parse_skip_space", "parse_skip_comment_line", "parse_param_name",
     "parse_skip_space_before_equal", "parse_skip_space_after_equal",
     "parse_value", "parse_line_end", "parse_value_in_single_quote",
     "parse_value_in_double_quote"}

QuotedModes == {"parse_value_in_single_quote", "parse_value_in_double_quote"}

\* The byte as the char the program holds.
ToChar(b) == IF char_signed /\ b >= 128 THEN b - 256 ELSE b

\* Maps a caller may pass: a fresh one, or one that already holds a pair.
InitialMaps == {EmptyMap, (<<LETTER_A>> :> <<UNDERSCORE>>)}

InitCommon ==
    /\ pc = "call"
    /\ status = 0
    /\ ret_null \in BOOLEAN
    /\ ret \in (IF ret_null THEN {EmptyMap} ELSE InitialMaps)
    /\ ret0 = ret
    /\ fconf = "unopened"
    /\ pos = 0
    /\ char_signed \in BOOLEAN
    /\ mode = "parse_skip_space"
    /\ param_name = [i \in 0..(CONF_PARAM_NAME_MAX_LEN - 1) |-> Uninit]
    /\ param_value = [i \in 0..(CONF_PARAM_VALUE_MAX_LEN - 1) |-> Uninit]
    /\ name_fill = 0
    /\ value_fill = 0
    /\ line = 1
    /\ commits = <<>>
    /\ consumed = <<>>

Init == InitCommon /\ tracing = FALSE

InitTraced == InitCommon /\ tracing = TRUE

Limit == IF tracing THEN MaxTraced ELSE MaxInput

\* ------------------------------------------------------------- actions
scanVars == <<mode, param_name, param_value, name_fill, value_fill, line>>
histVars == <<ret0, tracing, char_signed, ret_null>>

\* if (!ret) return CONFERR_NORET;
CallNoRet ==
    /\ pc = "call" /\ ret_null
    /\ pc' = "done" /\ status' = CONFERR_NORET
    /\ UNCHANGED <<ret, fconf, pos, commits, consumed>>
    /\ UNCHANGED scanVars /\ UNCHANGED histVars

\* if (!fconf) return CONFERR_ERRFILE;
CallFileError ==
    /\ pc = "call" /\ ~ret_null
    /\ pc' = "done" /\ status' = CONFERR_ERRFILE /\ fconf' = "failed"
    /\ UNCHANGED <<ret, pos, commits, consumed>>
    /\ UNCHANGED scanVars /\ UNCHANGED histVars

CallOpen ==
    /\ pc = "call" /\ ~ret_null
    /\ pc' = "scan" /\ fconf' = "good"
    /\ UNCHANGED <<status, ret, pos, commits, consumed>>
    /\ UNCHANGED scanVars /\ UNCHANGED histVars

\* fconf.get(c) delivers byte b.
Get(b) ==
    /\ pc = "scan" /\ pos < Limit
    /\ pos' = pos + 1
    /\ consumed' = IF tracing THEN Append(consumed, b) ELSE consumed
    /\ UNCHANGED histVars

\* Faulty variant: an assignment left unfinished by the end of the stream
\* returned as a syntax error.
EndOfStreamStrict ==
    /\ pc = "scan"
    /\ pc' = "done"
    /\ IF mode \in {"parse_param_name", "parse_skip_space_before_equal",
                    "parse_skip_space_after_equal", "parse_value"}
       THEN /\ status' = CONFERR_WRONGSYNTAX /\ fconf' = "closed"
            /\ ret' = EmptyMap
       ELSE /\ fconf' = "eof"
            /\ UNCHANGED <<status, ret>>
    /\ UNCHANGED <<pos, commits, consumed>>
    /\ UNCHANGED scanVars /\ UNCHANGED histVars

\* fconf.get(c) fails at the end of the stream: the loop ends, return 0.
EndOfStream ==
    /\ pc = "scan"
    /\ pc' = "done" /\ fconf' = "eof"
    /\ UNCHANGED <<status, ret, pos, commits, consumed>>
    /\ UNCHANGED scanVars /\ UNCHANGED histVars

\* An error return: fconf.close(); ret->clear(); return code;
Fail(code) ==
    /\ pc' = "done" /\ status' = code /\ fconf' = "closed"
    /\ ret' = EmptyMap
    /\ commits' = commits

\* A step of the loop that returns nothing.
Go == pc' = pc /\ status' = status /\ fconf' = fconf

\* Faulty variant: the newline test left out of a case.
CountLineNever(ch, n) == n

\* if (c == '\n') line++;  as written in the cases of the switch.
CountLine(ch, n) == IF ch = NL THEN n + 1 ELSE n

\* Faulty variant: a newline closing a value treated as any other space.
ModeAfterValueSameLine(ch) ==
    IF ch = HASH THEN "parse_skip_comment_line" ELSE "parse_line_end"

\* The mode chosen when an unquoted value is closed (case parse_value).
ModeAfterValue(ch) ==
    IF ch = HASH THEN "parse_skip_comment_line"
    ELSE IF ch = NL THEN "parse_skip_space"
    ELSE "parse_line_end"

\* Faulty variant: the similarly named enumerator after a closing delimiter.
ModeAfterQuoteStays == "parse_skip_space_after_equal"

\* mode = parse_skip_space;  after the closing delimiter of a quoted value.
ModeAfterQuote == "parse_skip_space"

\* ret->insert(std::make_pair(param_name, param_value)) on the arrays given.
Commit(nbuf, vbuf) ==
    LET k == CStr(nbuf, CONF_PARAM_NAME_MAX_LEN)
        v == CStr(vbuf, CONF_PARAM_VALUE_MAX_LEN)
    IN /\ ret' = Insert(ret, k, v)
       /\ commits' = Append(commits, <<k, v>>)

NoCommit == ret' = ret /\ commits' = commits

\* if (c == EOF) { ... break; }  and the return 0 after the loop.
EofChar ==
    /\ pc = "scan"
    /\ \E b \in Alphabet :
      /\ Get(b) /\ ToChar(b) = EOF
      /\ pc' = "done" /\ status' = status /\ fconf' = fconf
      /\ IF mode \in QuotedModes
         THEN /\ param_value' = TerminateValue(param_value, value_fill)
              /\ Commit(param_name, param_value')
         ELSE /\ param_value' = param_value
              /\ NoCommit
      /\ UNCHANGED <<mode, param_name, name_fill, value_fill, line>>

SkipSpace ==
    /\ pc = "scan" /\ mode = "parse_skip_space"
    /\ \E b \in Alphabet : LET ch == ToChar(b) IN
      /\ Get(b) /\ ch # EOF
      /\ IF ch = HASH
         THEN /\ mode' = "parse_skip_comment_line" /\ Go /\ NoCommit
              /\ UNCHANGED <<param_name, param_value, name_fill, value_fill, line>>
         ELSE IF ch = NL
         THEN /\ line' = line + 1 /\ Go /\ NoCommit
              /\ UNCHANGED <<mode, param_name, param_value, name_fill, value_fill>>
         ELSE IF isalpha(ch)
         THEN /\ param_name' = Store(param_name, 0, ch)
              /\ name_fill' = 1
              /\ mode' = "parse_param_name" /\ Go /\ NoCommit
              /\ UNCHANGED <<param_value, value_fill, line>>
         ELSE IF ~isspace(ch)
         THEN /\ Fail(CONFERR_WRONGPARAM)
              /\ UNCHANGED scanVars
         ELSE /\ Go /\ NoCommit /\ UNCHANGED scanVars

SkipCommentLine ==
    /\ pc = "scan" /\ mode = "parse_skip_comment_line"
    /\ \E b \in Alphabet : LET ch == ToChar(b) IN
      /\ Get(b) /\ ch # EOF
      /\ Go /\ NoCommit
      /\ IF ch = NL
         THEN /\ line' = line + 1 /\ mode' = "parse_skip_space"
         ELSE /\ UNCHANGED <<line, mode>>
      /\ UNCHANGED <<param_name, param_value, name_fill, value_fill>>

ParamName ==
    /\ pc = "scan" /\ mode = "parse_param_name"
    /\ \E b \in Alphabet : LET ch == ToChar(b) IN
      /\ Get(b) /\ ch # EOF
      /\ IF isspace(ch)
         THEN /\ line' = CountLine(ch, line)
              /\ param_name' = Store(param_name, name_fill, NUL)
              /\ name_fill' = name_fill + 1
              /\ mode' = "parse_skip_space_before_equal" /\ Go /\ NoCommit
              /\ UNCHANGED <<param_value, value_fill>>
         ELSE IF ch = EQUALS
         THEN /\ param_name' = Store(param_name, name_fill, NUL)
              /\ name_fill' = name_fill + 1
              /\ mode' = "parse_skip_space_after_equal" /\ Go /\ NoCommit
              /\ UNCHANGED <<param_value, value_fill, line>>
         ELSE IF isalpha(ch) \/ isdigit(ch) \/ ch = UNDERSCORE
         THEN /\ param_name' = Store(param_name, name_fill, ch)
              /\ IF NameOverflow(name_fill)
                 THEN /\ Fail(CONFERR_WRONGPARAM)
                      /\ UNCHANGED <<mode, name_fill>>
                 ELSE /\ name_fill' = name_fill + 1
                      /\ Go /\ NoCommit /\ UNCHANGED mode
              /\ UNCHANGED <<param_value, value_fill, line>>
         ELSE /\ Fail(CONFERR_WRONGPARAM)
              /\ UNCHANGED scanVars

SkipSpaceBeforeEqual ==
    /\ pc = "scan" /\ mode = "parse_skip_space_before_equal"
    /\ \E b \in Alphabet : LET ch == ToChar(b) IN
      /\ Get(b) /\ ch # EOF
      /\ Go /\ NoCommit
      /\ IF isspace(ch)
         THEN /\ line' = CountLine(ch, line)
              /\ UNCHANGED mode
         ELSE /\ mode' = IF ch = EQUALS THEN "parse_skip_space_after_equal" ELSE mode
              /\ UNCHANGED line
      /\ UNCHANGED <<param_name, param_value, name_fill, value_fill>>

SkipSpaceAfterEqual ==
    /\ pc = "scan" /\ mode = "parse_skip_space_after_equal"
    /\ \E b \in Alphabet : LET ch == ToChar(b) IN
      /\ Get(b) /\ ch # EOF
      /\ Go
      /\ IF isspace(ch)
         THEN /\ line' = CountLine(ch, line)
              /\ NoCommit
              /\ UNCHANGED <<mode, param_value, value_fill>>
         ELSE IF ch = SQUOTE
         THEN /\ mode' = "parse_value_in_single_quote" /\ value_fill' = 0
              /\ NoCommit /\ UNCHANGED <<param_value, line>>
         ELSE IF ch = DQUOTE
         THEN /\ mode' = "parse_value_in_double_quote" /\ value_fill' = 0
              /\ NoCommit /\ UNCHANGED <<param_value, line>>
         ELSE IF ch = HASH
         THEN /\ value_fill' = 0
              /\ param_value' = TerminateValue(param_value, value_fill')
              /\ Commit(param_name, param_value')
              /\ mode' = "parse_skip_comment_line"
              /\ UNCHANGED line
         ELSE /\ param_value' = Store(param_value, 0, ch)
              /\ value_fill' = 1
              /\ mode' = "parse_value"
              /\ NoCommit /\ UNCHANGED line
      /\ UNCHANGED <<param_name, name_fill>>

Value ==
    /\ pc = "scan" /\ mode = "parse_value"
    /\ \E b \in Alphabet : LET ch == ToChar(b) IN
      /\ Get(b) /\ ch # EOF
      /\ IF isspace(ch) \/ ch = HASH
         THEN /\ param_value' = TerminateValue(param_value, value_fill)
              /\ value_fill' = value_fill + 1
              /\ Commit(param_name, param_value')
              /\ mode' = ModeAfterValue(ch)
              /\ line' = CountLine(ch, line)
              /\ Go
         ELSE /\ param_value' = Store(param_value, value_fill, ch)
              /\ IF ValueOverflow(value_fill)
                 THEN /\ Fail(CONFERR_WRONGVALUE)
                      /\ UNCHANGED value_fill
                 ELSE /\ value_fill' = value_fill + 1
                      /\ Go /\ NoCommit
              /\ UNCHANGED <<mode, line>>
      /\ UNCHANGED <<param_name, name_fill>>

LineEnd ==
    /\ pc = "scan" /\ mode = "parse_line_end"
    /\ \E b \in Alphabet : LET ch == ToChar(b) IN
      /\ Get(b) /\ ch # EOF
      /\ IF isspace(ch)
         THEN /\ line' = CountLine(ch, line)
              /\ mode' = IF ch = NL THEN "parse_skip_space" ELSE mode
              /\ Go /\ NoCommit
         ELSE IF ch = HASH
         THEN /\ mode' = "parse_skip_comment_line"
              /\ Go /\ NoCommit /\ UNCHANGED line
         ELSE /\ Fail(CONFERR_WRONGSYNTAX)
              /\ UNCHANGED <<mode, line>>
      /\ UNCHANGED <<param_name, param_value, name_fill, value_fill>>

\* The two quoted-value cases differ only in the closing delimiter.
QuotedStep(ch, delim) ==
    IF ch # delim
    THEN /\ line' = CountLine(ch, line)
         /\ param_value' = Store(param_value, value_fill, ch)
         /\ IF ValueOverflow(value_fill)
            THEN /\ Fail(CONFERR_WRONGVALUE)
                 /\ UNCHANGED value_fill
            ELSE /\ value_fill' = value_fill + 1
                 /\ Go /\ NoCommit
         /\ UNCHANGED mode
    ELSE /\ param_value' = TerminateValue(param_value, value_fill)
         /\ value_fill' = value_fill + 1
         /\ Commit(param_name, param_value')
         /\ mode' = ModeAfterQuote
         /\ Go /\ UNCHANGED line

ValueInSingleQuote ==
    /\ pc = "scan" /\ mode = "parse_value_in_single_quote"
    /\ \E b \in Alphabet : LET ch == ToChar(b) IN
      /\ Get(b) /\ ch # EOF
      /\ QuotedStep(ch, SQUOTE)
      /\ UNCHANGED <<param_name, name_fill>>

ValueInDoubleQuote ==
    /\ pc = "scan" /\ mode = "parse_value_in_double_quote"
    /\ \E b \in Alphabet : LET ch == ToChar(b) IN
      /\ Get(b) /\ ch # EOF
      /\ QuotedStep(ch, DQUOTE)
      /\ UNCHANGED <<param_name, name_fill>>

Next ==
    \/ CallNoRet \/ CallFileError \/ CallOpen
    \/ EofChar
    \/ SkipSpace \/ SkipCommentLine \/ ParamName
    \/ SkipSpaceBeforeEqual \/ SkipSpaceAfterEqual
    \/ Value \/ LineEnd
    \/ ValueInSingleQuote \/ ValueInDoubleQuote
    \/ EndOfStream

Spec == Init /\ [][Next]_vars

SpecTraced == InitTraced /\ [][Next]_vars

TypeOK ==
    /\ pc \in {"call", "scan", "done"}
    /\ mode \in Modes
    /\ pos \in 0..Limit
    /\ line \in 1..(Limit + 1)

\* ------------------------------------------------- vocabulary of the claims
\* The grammar's words, over the bytes of the file.
IsNameByte(b) == isalpha(b) \/ isdigit(b) \/ b = UNDERSCORE

\* <name>: [A-Za-z][A-Za-z0-9_]*
IsName(s) ==
    /\ Len(s) >= 1
    /\ isalpha(s[1])
    /\ \A i \in 2..Len(s) : IsNameByte(s[i])

\* A non-empty word of letters, digits and '_'.
IsWord(s) == Len(s) >= 1 /\ \A i \in 1..Len(s) : IsNameByte(s[i])

\* A non-empty value with no whitespace, no '#' and no quote.
IsPlainValue(s) ==
    /\ Len(s) >= 1
    /\ \A i \in 1..Len(s) : ~isspace(s[i]) /\ s[i] \notin {HASH, SQUOTE, DQUOTE}

\* A value as it may stand unquoted: closed by whitespace or '#', and not
\* opened by a quote.
IsUnquotedValue(s) ==
    /\ Len(s) >= 1
    /\ s[1] \notin {SQUOTE, DQUOTE}
    /\ \A i \in 1..Len(s) : ~isspace(s[i]) /\ s[i] # HASH

\* A value as it may stand between two delimiters q.
IsQuotedBody(s, q) == \A i \in 1..Len(s) : s[i] # q

\* The first n elements of s, and s from its n-th element on.
Prefix(s, n) == SubSeq(s, 1, n)
Suffix(s, n) == SubSeq(s, n, Len(s))

\* The byte read by the last step (when tracing).
LastRead == consumed[Len(consumed)]

\* The (name, value) of the insert call made by this step, if it made one.
Committing == Len(commits') = Len(commits) + 1
Committed == commits'[Len(commits')]

\* The characters of the value accumulated so far.
Accumulated == [i \in 1..value_fill |-> param_value[i - 1]]

ReturnedAtEndOfStream == pc = "done" /\ fconf = "eof"

NamesCommitted == {commits[i][1] : i \in 1..Len(commits)}

FirstCommitted(k) ==
    LET i == CHOOSE n \in 1..Len(commits) :
                 /\ commits[n][1] = k
                 /\ \A j \in 1..(n - 1) : commits[j][1] # k
    IN commits[i][2]

\* ------------------------------------------------------------------ C1
\* C1: whenever parse_config is given a map and returns a non-zero status,
\* the map is empty on return.
C1_ErrorLeavesMapEmpty ==
    (pc = "done" /\ ~ret_null /\ status # 0) => ret = EmptyMap

\* ------------------------------------------------------------------ C2
\* C2: the commit is insert-only-if-absent.  While no error has returned,
\* the map holds the pairs the caller passed plus, for every other name
\* committed, the value of its first commit; a commit of a name that is
\* already a key changes nothing.
C2_FirstCommitWins ==
    (~ret_null /\ status = 0) =>
        /\ DOMAIN ret = DOMAIN ret0 \cup NamesCommitted
        /\ \A k \in DOMAIN ret :
              ret[k] = IF k \in DOMAIN ret0 THEN ret0[k] ELSE FirstCommitted(k)

\* A successful parse into a fresh map of a file that commits one name
\* twice, with different values.
C2_Witness ==
    /\ pc = "done" /\ status = 0 /\ ret0 = EmptyMap
    /\ \E i, j \in 1..Len(commits) :
          /\ i < j
          /\ commits[i][1] = commits[j][1]
          /\ commits[i][2] # commits[j][2]
          /\ ret[commits[i][1]] = commits[i][2]

\* ------------------------------------------------------------------ C3
\* C3: a well-formed input parses with status 0 to the map of its names
\* with their first values, also when the stream ends directly after the
\* last character of an unquoted value.  Stated for the files made of one
\* line <name>=<value>, with or without the closing newline, parsed into a
\* fresh map.
C3_WellFormedLineParsed ==
    \A n \in 1..(Len(consumed) - 2) :
        LET k == Prefix(consumed, n)
            rest == Suffix(consumed, n + 2)
            v == IF rest[Len(rest)] = NL THEN Prefix(rest, Len(rest) - 1) ELSE rest
        IN (/\ ReturnedAtEndOfStream /\ ret0 = EmptyMap
            /\ IsName(k) /\ consumed[n + 1] = EQUALS
            /\ IsWord(v))
           => (status = 0 /\ ret = (k :> v))

\* ------------------------------------------------------------------ C4
\* C4: if the stream ends inside a quoted value, the characters accumulated
\* so far are committed as the value of the pending name and the parse
\* returns 0.  Stated for the files <name>=<quote><characters> parsed into a
\* fresh map.
C4_EndOfStreamInQuoteCommits ==
    \A n \in 1..(Len(consumed) - 2) : \A q \in {SQUOTE, DQUOTE} :
        LET k == Prefix(consumed, n)
            v == Suffix(consumed, n + 3)
        IN (/\ ReturnedAtEndOfStream /\ ret0 = EmptyMap
            /\ IsName(k) /\ consumed[n + 1] = EQUALS /\ consumed[n + 2] = q
            /\ v # <<>> /\ IsQuotedBody(v, q))
           => (status = 0 /\ ret = (k :> v))
\* ------------------------------------------------------------------ C5
\* C5: with name bound N = CONF_PARAM_NAME_MAX_LEN, a name of N-1 characters
\* is accepted and committed unchanged (here by the file <name>=#), and the
\* N-th character of a name makes the parse fail with CONFERR_WRONGPARAM
\* at that character.
C5_NameLengthBoundary ==
    LET N == CONF_PARAM_NAME_MAX_LEN IN
    /\ (/\ pc # "call" /\ Len(consumed) = N + 1
        /\ IsName(Prefix(consumed, N - 1))
        /\ consumed[N] = EQUALS /\ consumed[N + 1] = HASH)
       => LET k == Prefix(consumed, N - 1) IN
          /\ status = 0
          /\ commits = << <<k, <<>>>> >>
          /\ DOMAIN ret = DOMAIN ret0 \cup {k}
          /\ k \notin DOMAIN ret0 => ret[k] = <<>>
    /\ (pc # "call" /\ Len(consumed) = N /\ IsName(consumed))
       => (pc = "done" /\ status = CONFERR_WRONGPARAM /\ ret = EmptyMap)

\* The file <name>=# with a name of N-1 characters, parsed into a fresh map.
C5_Witness ==
    LET N == CONF_PARAM_NAME_MAX_LEN IN
    /\ pc = "scan" /\ ret0 = EmptyMap
    /\ Len(consumed) = N + 1
    /\ IsName(Prefix(consumed, N - 1))
    /\ consumed[N] = EQUALS /\ consumed[N + 1] = HASH
    /\ DOMAIN ret = {Prefix(consumed, N - 1)}

\* ------------------------------------------------------------------ C6
\* C6: with value bound M = CONF_PARAM_VALUE_MAX_LEN, a value of M-1
\* characters is accepted and committed unchanged and the M-th character of
\* a value makes the parse fail with CONFERR_WRONGVALUE, for unquoted,
\* single-quoted and double-quoted values alike.  Stated for the files
\* a=<value> and a=<quote><value><quote> parsed into a fresh map.
C6_ValueLengthBoundary ==
    LET M == CONF_PARAM_VALUE_MAX_LEN
        opened == Len(consumed) >= 3 /\ consumed[1] = LETTER_A
                  /\ consumed[2] = EQUALS /\ ret0 = EmptyMap /\ pc # "call"
        quoted == consumed[3] \in {SQUOTE, DQUOTE}
    IN
    /\ \* unquoted, M-1 characters and a newline
       (/\ opened /\ Len(consumed) = M + 2
        /\ IsUnquotedValue(SubSeq(consumed, 3, M + 1))
        /\ consumed[M + 2] = NL)
       => (status = 0
           /\ ret = (<<LETTER_A>> :> SubSeq(consumed, 3, M + 1)))
    /\ \* unquoted, M characters
       (/\ opened /\ Len(consumed) = M + 2
        /\ IsUnquotedValue(SubSeq(consumed, 3, M + 2)))
       => (pc = "done" /\ status = CONFERR_WRONGVALUE /\ ret = EmptyMap)
    /\ \* quoted, M-1 characters and the closing delimiter
       (/\ opened /\ Len(consumed) = M + 3 /\ quoted
        /\ IsQuotedBody(SubSeq(consumed, 4, M + 2), consumed[3])
        /\ consumed[M + 3] = consumed[3])
       => (status = 0
           /\ ret = (<<LETTER_A>> :> SubSeq(consumed, 4, M + 2)))
    /\ \* quoted, M characters
       (/\ opened /\ Len(consumed) = M + 3 /\ quoted
        /\ IsQuotedBody(SubSeq(consumed, 4, M + 3), consumed[3]))
       => (pc = "done" /\ status = CONFERR_WRONGVALUE /\ ret = EmptyMap)

\* ------------------------------------------------------------------ C7
\* C7: after a value has been closed on a line, unquoted or quoted, a
\* further character on that line that is neither whitespace nor '#'
\* makes the parse fail with CONFERR_WRONGSYNTAX.  Stated for the files
\* a=<c><space><x> with an unquoted one-character value and
\* a=<quote><quote><x> with an empty quoted value.
C7_GarbageAfterValue ==
    (/\ pc # "call" /\ Len(consumed) = 5
     /\ consumed[1] = LETTER_A /\ consumed[2] = EQUALS
     /\ \/ IsUnquotedValue(<<consumed[3]>>) /\ consumed[4] = SP
        \/ consumed[3] \in {SQUOTE, DQUOTE} /\ consumed[4] = consumed[3]
     /\ ~isspace(consumed[5]) /\ consumed[5] # HASH)
    => (pc = "done" /\ status = CONFERR_WRONGSYNTAX)
\* ------------------------------------------------------------------ C8
\* C8 as stated: a pair with an empty value is committed only when, after
\* the '=' and optional whitespace, the next character is '#' or the end of
\* the line.
C8_EmptyValueOnlyAtHashOrNewline ==
    [][(Committing /\ Committed[2] = <<>>)
       => (mode = "parse_skip_space_after_equal" /\ LastRead' \in {HASH, NL})]_vars

\* C8 as amended: a pair with an empty value is committed only
\*  - by a '#' read after the '=' and optional whitespace, or
\*  - by the delimiter that closes a quoted value (or by a byte the build
\*    reads as EOF inside one) when no character has been accumulated, or
\*  - when the first character of the accumulated value is a NUL byte,
\*    since the buffer is committed as a C string.
\* A newline after the '=' commits nothing.
C8_EmptyValueSites ==
    [][(Committing /\ Committed[2] = <<>>)
       => \/ mode = "parse_skip_space_after_equal" /\ LastRead' = HASH
          \/ /\ mode = "parse_value_in_single_quote"
             /\ Accumulated = <<>>
             /\ LastRead' = SQUOTE \/ ToChar(LastRead') = EOF
          \/ /\ mode = "parse_value_in_double_quote"
             /\ Accumulated = <<>>
             /\ LastRead' = DQUOTE \/ ToChar(LastRead') = EOF
          \/ /\ mode \in QuotedModes \cup {"parse_value"}
             /\ Accumulated # <<>>
             /\ Accumulated[1] = NUL]_vars

\* An empty quoted value has just been committed into a fresh map.
C8_Witness ==
    /\ pc = "scan" /\ ret0 = EmptyMap
    /\ consumed = <<LETTER_A, EQUALS, SQUOTE, SQUOTE>>
    /\ ret = (<<LETTER_A>> :> <<>>)

\* ------------------------------------------------------------------ C9
\* C9: for every name k and every non-empty value v with no whitespace,
\* '#', ' or ", the one-line inputs k=v, k='v' and k="v" all parse with
\* status 0 to the map {k: v}.  Stated of each of the three files, parsed
\* into a fresh map.
C9_QuotingRoundTrip ==
    \A n \in 1..(Len(consumed) - 2) :
        LET k == Prefix(consumed, n)
            rest == Suffix(consumed, n + 2)
            quoted == /\ Len(rest) >= 3
                      /\ rest[1] \in {SQUOTE, DQUOTE}
                      /\ rest[Len(rest)] = rest[1]
            v == IF quoted THEN SubSeq(rest, 2, Len(rest) - 1) ELSE rest
        IN (/\ ReturnedAtEndOfStream /\ ret0 = EmptyMap
            /\ IsName(k) /\ consumed[n + 1] = EQUALS
            /\ IsPlainValue(v))
           => (status = 0 /\ ret = (k :> v))

\* ----------------------------------------------------------------- C10
\* C10: in SkipSpace a character that is neither whitespace, '#' nor
\* alphabetic, and in ParamName a character that is neither whitespace,
\* '=', alphanumeric nor '_', makes the parse fail with CONFERR_WRONGPARAM
\* at that character, with an empty map.
C10_NameLexicalRule ==
    [][(/\ pc = "scan" /\ pos' = pos + 1
        /\ \/ /\ mode = "parse_skip_space"
              /\ ~isspace(LastRead') /\ LastRead' # HASH /\ ~isalpha(LastRead')
           \/ /\ mode = "parse_param_name"
              /\ ~isspace(LastRead') /\ LastRead' # EQUALS
              /\ ~IsNameByte(LastRead'))
       => (pc' = "done" /\ status' = CONFERR_WRONGPARAM /\ ret' = EmptyMap)]_vars

\* ---------------------------------------------------------------- C11 ----
NewlinesConsumed == Cardinality({i \in 1..Len(consumed) : consumed[i] = NL})

\* C11: once the stream is open the line counter is 1 plus the number of
\* newline characters consumed so far, whatever states they were read in,
\* and it still is when an error or the end of the stream stops the scan.
C11_LineCountsNewlines ==
    pc # "call" => line = 1 + NewlinesConsumed

\* A scan that has read two newlines, the second of them
\* inside a quoted value, and goes on.
C11_Witness ==
    /\ pc = "scan" /\ mode \in QuotedModes
    /\ value_fill = 1 /\ param_value[0] = NL
    /\ line = 3 /\ NewlinesConsumed = 2

\* ---------------------------------------------------------------- C12 ----
Delimiter == IF mode = "parse_value_in_single_quote" THEN SQUOTE ELSE DQUOTE

\* The committed value is the accumulated characters as a C string.
CommitsAccumulated ==
    /\ Committing
    /\ Committed[1] = CStr(param_name, CONF_PARAM_NAME_MAX_LEN)
    /\ LET n == Len(Committed[2]) IN
         /\ n <= value_fill
         /\ Committed[2] = Prefix(Accumulated, n)
         /\ n = value_fill \/ Accumulated[n + 1] = NUL

\* C12: in a quoted value every character other than the opening delimiter
\* is appended to the value (there being room for it) and the scan goes on
\* in the same state; the matching delimiter commits the pair and moves to
\* SkipSpace.
C12_OnlyDelimiterTerminates ==
    [][(pc = "scan" /\ pos' = pos + 1 /\ mode \in QuotedModes)
       => IF LastRead' = Delimiter
          THEN /\ CommitsAccumulated
               /\ pc' = "scan" /\ mode' = "parse_skip_space"
          ELSE ~ValueOverflow(value_fill)
               => /\ pc' = "scan" /\ mode' = mode
                  /\ ~Committing
                  /\ Accumulated' = Append(Accumulated, ToChar(LastRead'))]_vars

\* ---------------------------------------------------------------- C13 ----
\* C13: in SkipSpaceBeforeEqual a character other than `=` leaves the scan
\* going in that state, and `=` moves it to SkipSpaceAfterEqual; neither
\* reports an error, commits, or changes the pending name or the map.
C13_BeforeEqualSkipsAnything ==
    [][(pc = "scan" /\ pos' = pos + 1
        /\ mode = "parse_skip_space_before_equal")
       => /\ pc' = "scan" /\ status' = 0
          /\ mode' = IF LastRead' = EQUALS
                     THEN "parse_skip_space_after_equal"
                     ELSE "parse_skip_space_before_equal"
          /\ param_name' = param_name
          /\ ret' = ret /\ ~Committing]_vars

\* ---------------------------------------------------------------- C14 ----
\* C14: in SkipSpaceAfterEqual a `#` commits the pending name with the empty
\* string and moves to SkipCommentLine, while a space or a newline keeps the
\* scan in SkipSpaceAfterEqual with nothing committed and the name pending.
C14_AfterEqualHashAndSpace ==
    [][(pc = "scan" /\ pos' = pos + 1
        /\ mode = "parse_skip_space_after_equal")
       => /\ LastRead' = HASH
             => /\ Committing
                /\ Committed = <<CStr(param_name, CONF_PARAM_NAME_MAX_LEN), <<>>>>
                /\ Committed[1] \in DOMAIN ret'
                /\ Committed[1] \notin DOMAIN ret => ret'[Committed[1]] = <<>>
                /\ pc' = "scan" /\ mode' = "parse_skip_comment_line"
          /\ LastRead' \in {SP, NL}
             => /\ pc' = "scan" /\ status' = 0
                /\ mode' = "parse_skip_space_after_equal"
                /\ param_name' = param_name
                /\ ret' = ret /\ ~Committing]_vars

\* The value of a begins on the line after the equals sign and is committed.
C14_Witness ==
    /\ consumed = <<LETTER_A, EQUALS, NL, DIGIT1, HASH>>
    /\ commits = << <<(<<LETTER_A>>), (<<DIGIT1>>)>> >>
    /\ line = 2

\* ---------------------------------------------------------------- C15 ----
\* C15: in Value the pair is committed exactly when the character read is
\* whitespace or `#`; the value committed is what was accumulated, and the
\* next state is SkipCommentLine after `#`, SkipSpace after a newline and
\* LineEnd after any other whitespace.
C15_UnquotedValueClose ==
    [][(pc = "scan" /\ pos' = pos + 1 /\ mode = "parse_value")
       => /\ Committing <=> (isspace(LastRead') \/ LastRead' = HASH)
          /\ Committing
             => /\ CommitsAccumulated
                /\ pc' = "scan"
                /\ mode' = IF LastRead' = HASH THEN "parse_skip_comment_line"
                           ELSE IF LastRead' = NL THEN "parse_skip_space"
                           ELSE "parse_line_end"]_vars

\* The value 1 of a was closed by a newline and the scan is in SkipSpace.
C15_Witness ==
    /\ consumed = <<LETTER_A, EQUALS, DIGIT1, NL>>
    /\ commits = << <<(<<LETTER_A>>), (<<DIGIT1>>)>> >>
    /\ pc = "scan" /\ mode = "parse_skip_space"

\* ---------------------------------------------------------------- C16 ----
\* C16: when the stream ends in a non-quoted state the scan returns 0 and
\* the map is left as the commits made it, whatever was pending: a name
\* without `=` or without a value is no error.
C16_EndOfStreamKeepsMap ==
    [][(pc = "scan" /\ pc' = "done" /\ pos' = pos
        /\ mode \notin QuotedModes)
       => /\ status' = 0
          /\ ret' = ret /\ ~Committing]_vars

\* The stream ended inside the second name, after one pair was committed.
C16_Witness ==
    /\ ReturnedAtEndOfStream /\ status = 0
    /\ mode = "parse_param_name" /\ name_fill = 1
    /\ Len(commits) = 1 /\ commits[1][1] \in DOMAIN ret

\* ---------------------------------------------------------------- C17 ----
\* C17: every step of the scan consumes exactly one character beyond those
\* already consumed, and the scan ends either when the stream has no more
\* characters, with status 0, or on the character of its first error: it
\* never stops short of the end of the stream without an error.
C17_EndsAtStreamEndOrError ==
    [][pc = "scan"
       => \/ /\ pos' = pos + 1
             /\ Len(consumed') = pos' /\ Prefix(consumed', pos) = consumed
             /\ \/ pc' = "scan" /\ status' = 0
                \/ pc' = "done" /\ status' < 0
          \/ /\ pos' = pos /\ consumed' = consumed
             /\ pc' = "done" /\ status' = 0 /\ fconf' = "eof"]_vars

\* ---------------------------------------------------------------- C18 ----
\* C18: no write ever lands outside the two arrays: the cells of the name
\* buffer stay 0..N-1 and those of the value buffer 0..M-1, and the index
\* of the next write stays inside them while a name or a value is open.
C18_WritesInsideBuffers ==
    /\ DOMAIN param_name = 0..(CONF_PARAM_NAME_MAX_LEN - 1)
    /\ DOMAIN param_value = 0..(CONF_PARAM_VALUE_MAX_LEN - 1)
    /\ pc = "scan" /\ mode = "parse_param_name"
       => name_fill \in 1..(CONF_PARAM_NAME_MAX_LEN - 1)
    /\ pc = "scan" /\ mode = "parse_value"
       => value_fill \in 1..(CONF_PARAM_VALUE_MAX_LEN - 1)
    /\ pc = "scan" /\ mode \in QuotedModes
       => value_fill \in 0..(CONF_PARAM_VALUE_MAX_LEN - 1)

\* The scan stopped on an overlong quoted value whose last character went
\* into the last cell of the value buffer, after a name that fills its own.
C18_Witness ==
    /\ pc = "done" /\ status = CONFERR_WRONGVALUE
    /\ mode \in QuotedModes
    /\ param_value[CONF_PARAM_VALUE_MAX_LEN - 1] = DIGIT1
    /\ param_name[CONF_PARAM_NAME_MAX_LEN - 1] = NUL
    /\ name_fill = CONF_PARAM_NAME_MAX_LEN

\* ---------------------------------------------------------------- C19 ----
\* C19: when the caller's map starts empty, every key of the map is a name
\* (a letter, then letters, digits and `_`) of at most N-1 characters, and
\* every value has at most M-1 characters.
C19_MapWellFormed ==
    ret0 = EmptyMap
    => \A k \in DOMAIN ret :
         /\ IsName(k) /\ Len(k) <= CONF_PARAM_NAME_MAX_LEN - 1
         /\ Len(ret[k]) <= CONF_PARAM_VALUE_MAX_LEN - 1

\* A map holding a key and a value of the greatest lengths allowed.
C19_Witness ==
    /\ ret0 = EmptyMap
    /\ \E k \in DOMAIN ret :
         /\ Len(k) = CONF_PARAM_NAME_MAX_LEN - 1
         /\ Len(ret[k]) = CONF_PARAM_VALUE_MAX_LEN - 1

\* ---------------------------------------------------------------- C20 ----
\* The states in which a name is open, and those that follow a commit.
NameModes == {"parse_param_name", "parse_skip_space_before_equal"}
ValueModes == {"parse_skip_space_after_equal", "parse_value"} \cup QuotedModes
RestModes == {"parse_skip_space", "parse_skip_comment_line", "parse_line_end"}

\* C20: a commit pairs the value with the pending name and leaves the
\* states of an assignment: it is made from SkipSpaceAfterEqual, Value or a
\* quoted state and the scan then ends or goes to SkipSpace, SkipCommentLine
\* or LineEnd. From there the only way back to SkipSpaceAfterEqual, Value or
\* a quoted state is through SkipSpace and ParamName, where a new name is
\* written; the name buffer changes nowhere else.
C20_NoStaleName ==
    [][pc = "scan"
       => /\ Committing
             => /\ mode \in ValueModes
                /\ Committed[1] = CStr(param_name, CONF_PARAM_NAME_MAX_LEN)
                /\ pc' = "done" \/ mode' \in RestModes
          /\ mode \in RestModes
             => \/ mode' \in RestModes
                \/ mode = "parse_skip_space" /\ mode' = "parse_param_name"
          /\ mode \in NameModes
             => mode' \in NameModes \cup {"parse_skip_space_after_equal"}
          /\ mode \in ValueModes /\ ~Committing => mode' \in ValueModes
          /\ mode' = "parse_param_name" /\ mode # "parse_param_name"
             => mode = "parse_skip_space" /\ name_fill' = 1
          /\ param_name' # param_name
             => mode \in {"parse_skip_space", "parse_param_name"}]_vars

\* Two assignments were scanned and each was committed once.
C20_Witness ==
    /\ Len(commits) = 2 /\ pc = "scan"
    /\ mode \in RestModes /\ name_fill = 2

====
